---- MODULE Spec2Model ----
(***************************************************************************)
(* MeteoSwiss sensor platform (homeassistant/components/meteoswiss/         *)
(* sensor.py): the update method async_update_data, the platform setup,     *)
(* and the MeteoSwissSensor entity, together with the DataUpdateCoordinator *)
(* that runs the update method and holds its result.                        *)
(***************************************************************************)
EXTENDS Integers, Sequences, FiniteSets, TLC

VARIABLES
    data,                 \* coordinator.data: None or the dict the update method returned
    last_update_success,  \* coordinator.last_update_success
    listeners,            \* coordinator listeners (entity indices)
    tasks,                \* runs of async_update_data in flight, each with its locals
    setup,                \* position of async_setup_platform
    entities,             \* the list handed to add_entities
    hass_phase,           \* per entity: "created", "added" (to hass), "removed"
    waiters,              \* entities suspended in async_update
    notified,             \* listeners called back by the last refresh; none while one runs
    last_cycle,           \* the fetches of the most recent completed run: "ok", "failed"
    last_good,            \* what the most recent run with three successful fetches returned
    inputs                \* bodies parsed so far by the run in flight (SpecAggregate only)

vars == <<data, last_update_success, listeners, tasks, setup, entities,
          hass_phase, waiters, notified, last_cycle, last_good, inputs>>

----------------------------------------------------------------------------
(* Bounds *)

MaxEntries == 2

(* Program constants *)

HTTP_BAD_REQUEST == 400

CONFIG_CONDITIONS == <<"temperature", "precipitation", "humidity">>

SENSOR_TYPES == {"temperature", "precipitation", "humidity"}

CONF_STATION == "Arosa"

MONITORED_CONDITIONS == <<"temperature", "humidity">>

(* The upstream feed *)

Stations == {"Arosa", "Zurich"}

Location == [s \in Stations |-> IF s = "Arosa" THEN <<9, 46>> ELSE <<8, 47>>]

Coordinates == {Location[s] : s \in Stations}

Statuses == {200, 399, 400, 503}

GetErrors == {"TimeoutError", "ClientError"}

MkEntry(s, c) ==
    [station_name |-> s, coordinates |-> c, value |-> 5, unit |-> "u",
     reference_ts |-> "t"]

\* entries of the feed: a station reports its own location
FeedEntries == {MkEntry(s, Location[s]) : s \in Stations}

\* entries with arbitrary coordinates
AnyEntries == {MkEntry(s, c) : s \in Stations, c \in Coordinates}

SeqsUpTo(S, n) == UNION {[1..k -> S] : k \in 0..n}

JsonBody(f) == [kind |-> "json", features |-> f]

MalformedBodies == {[kind |-> "notjson"], [kind |-> "nofeatures"], [kind |-> "badentry"]}

\* the bodies of the feed: every station at most once, at its own location
FeedBodies ==
    {JsonBody(f) : f \in {g \in SeqsUpTo(FeedEntries, MaxEntries) :
                            \A j, k \in DOMAIN g : j # k => g[j] # g[k]}}
        \cup MalformedBodies

AnyBodies == {JsonBody(f) : f \in SeqsUpTo(AnyEntries, MaxEntries)}

----------------------------------------------------------------------------
(* Python values *)

None == [none |-> TRUE]

Dict(d) == [dict |-> d]

IsNone(x) == "none" \in DOMAIN x

EmptyDict == <<>>

----------------------------------------------------------------------------
(* async_update_data: the body of the loop over one response *)

\* as ProcessEntry, without the test "if station not in data"
ProcessEntry_reset(d, mon_cond, entry) ==
    LET station == entry.station_name
        d1 == (station :> [coordinates |-> entry.coordinates]) @@ d
        obs == [value |-> entry.value, unit |-> entry.unit, time |-> entry.reference_ts]
    IN  [d1 EXCEPT ![station] = (mon_cond :> obs) @@ d1[station]]

\* as ProcessEntry, with the coordinates taken from every entry
ProcessEntry_recoord(d, mon_cond, entry) ==
    LET station == entry.station_name
        d1 == IF station \in DOMAIN d
              THEN d
              ELSE (station :> [coordinates |-> entry.coordinates]) @@ d
        obs == [value |-> entry.value, unit |-> entry.unit, time |-> entry.reference_ts]
    IN  [d1 EXCEPT ![station] =
            ("coordinates" :> entry.coordinates) @@ (mon_cond :> obs) @@ d1[station]]

ProcessEntry(d, mon_cond, entry) ==
    LET station == entry.station_name
        d1 == IF station \in DOMAIN d
              THEN d
              ELSE (station :> [coordinates |-> entry.coordinates]) @@ d
        obs == [value |-> entry.value, unit |-> entry.unit, time |-> entry.reference_ts]
    IN  [d1 EXCEPT ![station] = (mon_cond :> obs) @@ d1[station]]

RECURSIVE ProcessFeatures(_, _, _)
ProcessFeatures(d, mon_cond, features) ==
    IF features = <<>>
    THEN d
    ELSE ProcessFeatures(ProcessEntry(d, mon_cond, Head(features)), mon_cond,
                         Tail(features))

----------------------------------------------------------------------------
(* async_update_data: one run is a task with the locals mon_cond (index into  *)
(* CONFIG_CONDITIONS), data, and pc, the await it is suspended at: "get"      *)
(* (websession.get under async_timeout.timeout(10)) or "text" (resp.text()).  *)

NewTask == [mon_cond |-> 1, pc |-> "get", data |-> EmptyDict]

Await(t) == [op |-> "await", task |-> t]

Return(v) == [op |-> "return", value |-> v]

Raise(e) == [op |-> "raise", error |-> e]

\* websession.get completed with a response of this status
OnGetResponse(t, status) ==
    IF status >= HTTP_BAD_REQUEST
    THEN Return(None)
    ELSE Await([t EXCEPT !.pc = "text"])

\* the timeout context expired, or the client raised, while awaiting websession.get
OnGetError(t, err) == Raise(err)

\* resp.text() completed with this body: json.loads, the loop over the features,
\* then the next condition or the return
OnText(t, body) ==
    IF body.kind = "notjson"
    THEN Raise("ValueError")
    ELSE IF body.kind \in {"nofeatures", "badentry"}
    THEN Raise("KeyError")
    ELSE LET d == ProcessFeatures(t.data, CONFIG_CONDITIONS[t.mon_cond], body.features)
         IN  IF t.mon_cond < Len(CONFIG_CONDITIONS)
             THEN Await([mon_cond |-> t.mon_cond + 1, pc |-> "get", data |-> d])
             ELSE Return(Dict(d))

----------------------------------------------------------------------------
(* MeteoSwissSensor *)

MeteoSwissSensor(monitored_condition, station) ==
    [_monitored_condition |-> monitored_condition, _station |-> station]

MakeEntities ==
    [i \in 1..Len(MONITORED_CONDITIONS) |->
        MeteoSwissSensor(MONITORED_CONDITIONS[i], CONF_STATION)]

Returns(v) == [returns |-> v]

Raises(e) == [raises |-> e]

DidRaise(r) == "raises" \in DOMAIN r

\* self._coordinator.data[self._station][key]
Subscript2(e, key) ==
    IF IsNone(data)
    THEN Raises("TypeError")
    ELSE IF entities[e]._station \notin DOMAIN data.dict
    THEN Raises("KeyError")
    ELSE IF key \notin DOMAIN data.dict[entities[e]._station]
    THEN Raises("KeyError")
    ELSE Returns(data.dict[entities[e]._station][key])

name(e) == "meteoswiss_" \o entities[e]._monitored_condition

should_poll(e) == FALSE

available(e) == last_update_success

state(e) ==
    LET o == Subscript2(e, entities[e]._monitored_condition)
    IN  IF DidRaise(o) THEN o ELSE Returns(o.returns.value)

unit_of_measurement(e) ==
    LET o == Subscript2(e, entities[e]._monitored_condition)
    IN  IF DidRaise(o) THEN o ELSE Returns(o.returns.unit)

device_state_attributes(e) ==
    LET o == Subscript2(e, entities[e]._monitored_condition)
        c == Subscript2(e, "coordinates")
    IN  IF DidRaise(o) THEN o
        ELSE IF DidRaise(c) THEN c
        ELSE Returns([attribution |-> "Data provided by MeteoSwiss via data.geo.admin.ch.",
                      time |-> o.returns.time,
                      unit_of_measurement |-> o.returns.unit,
                      location |-> entities[e]._station,
                      latitude |-> c.returns[1],
                      longitude |-> c.returns[2]])

----------------------------------------------------------------------------
(* DataUpdateCoordinator *)

Refreshing == tasks # <<>>

Idle == tasks = <<>>

RemoveAt(s, i) == [k \in 1..(Len(s) - 1) |-> IF k < i THEN s[k] ELSE s[k + 1]]

\* every registered listener is called back; the callers awaiting the refresh resume
NotifyListeners ==
    /\ notified' = listeners
    /\ waiters' = {}

\* the update method returned ret
UpdateReturned(ret) ==
    /\ data' = ret
    /\ last_update_success' = TRUE
    /\ NotifyListeners

\* the update method raised
UpdateRaised ==
    /\ data' = data
    /\ last_update_success' = FALSE
    /\ NotifyListeners

\* a refresh is asked for: run the update method unless a run is in flight
RefreshOrJoin ==
    /\ tasks' = IF Idle THEN <<NewTask>> ELSE tasks
    /\ notified' = IF Idle THEN {} ELSE notified

async_request_refresh(e) ==
    /\ waiters' = waiters \cup {e}
    /\ RefreshOrJoin

----------------------------------------------------------------------------
(* async_setup_platform *)

\* The coordinator as constructed: no data, no listeners, no refresh in flight.
\* The flag's value before the first refresh is not fixed by the description of
\* the coordinator, so both are admitted.
Init ==
    /\ data = None
    /\ last_update_success \in BOOLEAN
    /\ listeners = {}
    /\ tasks = <<>>
    /\ setup = "init"
    /\ entities = <<>>
    /\ hass_phase = <<>>
    /\ waiters = {}
    /\ notified = {}
    /\ last_cycle = "none"
    /\ last_good = None
    /\ inputs = <<>>

\* coordinator.async_refresh() at setup
async_setup_platform ==
    /\ setup = "init"
    /\ setup' = "refreshing"
    /\ RefreshOrJoin
    /\ UNCHANGED <<data, last_update_success, listeners, entities, hass_phase,
                   waiters, last_cycle, last_good, inputs>>

\* as SetupResumes, with the entities made only after a successful refresh
SetupResumes_if_success ==
    IF setup = "refreshing" /\ last_update_success'
    THEN /\ setup' = "done"
         /\ entities' = MakeEntities
         /\ hass_phase' = [i \in DOMAIN MakeEntities |-> "created"]
    ELSE UNCHANGED <<setup, entities, hass_phase>>

\* the rest of async_setup_platform, run when the awaited refresh has completed
SetupResumes ==
    IF setup = "refreshing"
    THEN /\ setup' = "done"
         /\ entities' = MakeEntities
         /\ hass_phase' = [i \in DOMAIN MakeEntities |-> "created"]
    ELSE UNCHANGED <<setup, entities, hass_phase>>

----------------------------------------------------------------------------
(* One step of task i of the update method, from the await it is suspended at  *)
(* to its next await, or to its end and the end of the refresh that awaits it. *)
(* kind records what the network did: "ok", or "failed" (a timeout, a client    *)
(* error, a status >= 400, a malformed body).                                  *)

Resume(i, step, kind) ==
    IF step.op = "await"
    THEN /\ tasks' = [tasks EXCEPT ![i] = step.task]
         /\ UNCHANGED <<data, last_update_success, listeners, setup, entities,
                        hass_phase, waiters, notified, last_cycle, last_good>>
    ELSE /\ tasks' = RemoveAt(tasks, i)
         /\ IF step.op = "return" THEN UpdateReturned(step.value) ELSE UpdateRaised
         /\ SetupResumes
         /\ last_cycle' = kind
         /\ last_good' = IF kind = "ok" /\ step.op = "return" THEN step.value ELSE last_good
         /\ UNCHANGED listeners

GetResponds(i, status) ==
    /\ i \in DOMAIN tasks
    /\ tasks[i].pc = "get"
    /\ Resume(i, OnGetResponse(tasks[i], status),
              IF status >= HTTP_BAD_REQUEST THEN "failed" ELSE "ok")

GetFails(i, err) ==
    /\ i \in DOMAIN tasks
    /\ tasks[i].pc = "get"
    /\ Resume(i, OnGetError(tasks[i], err), "failed")

TextDelivered(i, body) ==
    /\ i \in DOMAIN tasks
    /\ tasks[i].pc = "text"
    /\ Resume(i, OnText(tasks[i], body), IF body.kind = "json" THEN "ok" ELSE "failed")

\* the 10-minute interval elapsed
TimerTick ==
    /\ setup # "init"
    /\ RefreshOrJoin
    /\ UNCHANGED <<data, last_update_success, listeners, setup, entities, hass_phase,
                   waiters, last_cycle, last_good, inputs>>

\* as async_added_to_hass, without the call of async_add_listener
async_added_to_hass_nolisten(e) ==
    /\ e \in DOMAIN entities
    /\ hass_phase[e] = "created"
    /\ hass_phase' = [hass_phase EXCEPT ![e] = "added"]
    /\ UNCHANGED <<data, last_update_success, listeners, tasks, setup, entities, waiters,
                   notified, last_cycle, last_good, inputs>>

async_added_to_hass(e) ==
    /\ e \in DOMAIN entities
    /\ hass_phase[e] = "created"
    /\ hass_phase' = [hass_phase EXCEPT ![e] = "added"]
    /\ listeners' = listeners \cup {e}
    /\ UNCHANGED <<data, last_update_success, tasks, setup, entities, waiters,
                   notified, last_cycle, last_good, inputs>>

\* the entity is removed from hass: the callbacks given to async_on_remove run
async_remove(e) ==
    /\ e \in DOMAIN entities
    /\ hass_phase[e] = "added"
    /\ hass_phase' = [hass_phase EXCEPT ![e] = "removed"]
    /\ listeners' = listeners \ {e}
    /\ UNCHANGED <<data, last_update_success, tasks, setup, entities, waiters,
                   notified, last_cycle, last_good, inputs>>

\* as async_update, awaiting coordinator.async_refresh(), a refresh of its own
async_update_refresh(e) ==
    /\ e \in DOMAIN entities
    /\ hass_phase[e] = "added"
    /\ e \notin waiters
    /\ waiters' = waiters \cup {e}
    /\ tasks' = Append(tasks, NewTask)
    /\ notified' = {}
    /\ UNCHANGED <<data, last_update_success, listeners, setup, entities, hass_phase,
                   last_cycle, last_good, inputs>>

async_update(e) ==
    /\ e \in DOMAIN entities
    /\ hass_phase[e] = "added"
    /\ e \notin waiters
    /\ async_request_refresh(e)
    /\ UNCHANGED <<data, last_update_success, listeners, setup, entities, hass_phase,
                   last_cycle, last_good, inputs>>

NetGetResponds ==
    \E i \in DOMAIN tasks, status \in Statuses : GetResponds(i, status) /\ UNCHANGED inputs

NetGetFails ==
    \E i \in DOMAIN tasks, err \in GetErrors : GetFails(i, err) /\ UNCHANGED inputs

NetTextDelivered ==
    \E i \in DOMAIN tasks, body \in FeedBodies : TextDelivered(i, body) /\ UNCHANGED inputs

HassAddsEntity == \E e \in DOMAIN entities : async_added_to_hass(e)

HassRemovesEntity == \E e \in DOMAIN entities : async_remove(e)

UpdateService == \E e \in DOMAIN entities : async_update(e)

Next ==
    \/ async_setup_platform
    \/ NetGetResponds
    \/ NetGetFails
    \/ NetTextDelivered
    \/ TimerTick
    \/ HassAddsEntity
    \/ HassRemovesEntity
    \/ UpdateService

Spec == Init /\ [][Next]_vars

\* The network answers every GET or lets the 10-second timeout expire; nothing
\* bounds the delivery of a body.
NetworkGet == NetGetResponds \/ NetGetFails

FairSpec == Spec /\ WF_vars(NetworkGet)

----------------------------------------------------------------------------
(* The update method alone: the refresh at setup, with every fetch answered    *)
(* and the features of each parsed body kept in inputs.                        *)

AggInit == Init /\ last_update_success

AggGet ==
    \E i \in DOMAIN tasks, status \in {st \in Statuses : st < HTTP_BAD_REQUEST} :
        GetResponds(i, status) /\ UNCHANGED inputs

AggText ==
    \E i \in DOMAIN tasks, body \in AnyBodies :
        TextDelivered(i, body) /\ inputs' = Append(inputs, body.features)

AggNext ==
    \/ async_setup_platform
    \/ AggGet
    \/ AggText

SpecAggregate == AggInit /\ [][AggNext]_vars

----------------------------------------------------------------------------
(* Properties *)

ever_ok == ~IsNone(last_good)

CycleCompletes == Len(tasks') < Len(tasks)

StationsOf(features) == {features[k].station_name : k \in DOMAIN features}

RECURSIVE Concat(_)
Concat(ss) == IF ss = <<>> THEN <<>> ELSE Head(ss) \o Concat(Tail(ss))

\* the coordinates of the first entry of features naming station s
FirstCoordinates(features, s) ==
    LET k == CHOOSE k \in DOMAIN features :
                 /\ features[k].station_name = s
                 /\ \A j \in 1..(k - 1) : features[j].station_name # s
    IN  features[k].coordinates

\* C1: a cycle in which a fetch failed (timeout, client error, status >= 400,
\* malformed body) leaves the snapshot as it was before the cycle.
C1_FailedCycleKeepsSnapshot ==
    [][(CycleCompletes /\ last_cycle' = "failed") => data' = data]_vars

\* C2: while a sensor exists, available is false exactly when the last completed
\* cycle failed or no cycle has ever succeeded.
C2_AvailableIffLastCycleOk ==
    \A e \in DOMAIN entities :
        (~available(e)) <=> (last_cycle = "failed" \/ ~ever_ok)

\* C3: the snapshot is absent as long as no cycle has succeeded, and from then
\* on it is what a cycle whose three fetches all succeeded returned.
C3_AbsentOrCompleteResult ==
    data = last_good

\* C4: after a cycle whose three fetches succeeded, the snapshot holds every
\* station named in any response, and each station holds an observation for
\* exactly the conditions whose response named it.
C4_SnapshotCoversResponses ==
    Len(inputs) = Len(CONFIG_CONDITIONS) =>
        /\ ~IsNone(data)
        /\ DOMAIN data.dict = UNION {StationsOf(inputs[k]) : k \in DOMAIN inputs}
        /\ \A s \in DOMAIN data.dict :
              DOMAIN data.dict[s] \ {"coordinates"} =
                  {CONFIG_CONDITIONS[k] : k \in {j \in DOMAIN inputs : s \in StationsOf(inputs[j])}}

C4_Witness ==
    /\ Len(inputs) = Len(CONFIG_CONDITIONS)
    /\ ~IsNone(data)
    /\ StationsOf(inputs[1]) = {"Arosa"}
    /\ StationsOf(inputs[2]) = {"Arosa", "Zurich"}
    /\ StationsOf(inputs[3]) = {"Zurich"}
    /\ DOMAIN data.dict["Arosa"] = {"coordinates", "temperature", "precipitation"}

\* C9: a station's coordinates are those of the first entry seen for it in the
\* cycle (conditions in the order of CONFIG_CONDITIONS, entries in response
\* order), in the dict under construction and in the snapshot that results.
C9_CoordinatesFirstSeen ==
    /\ \A i \in DOMAIN tasks : \A s \in DOMAIN tasks[i].data :
          tasks[i].data[s].coordinates = FirstCoordinates(Concat(inputs), s)
    /\ Len(inputs) = Len(CONFIG_CONDITIONS) =>
          /\ ~IsNone(data)
          /\ \A s \in DOMAIN data.dict :
                data.dict[s].coordinates = FirstCoordinates(Concat(inputs), s)

C9_Witness ==
    /\ Len(inputs) = Len(CONFIG_CONDITIONS)
    /\ ~IsNone(data)
    /\ \E j \in DOMAIN inputs[1], k \in DOMAIN inputs[3] :
          /\ inputs[1][j].station_name = "Arosa"
          /\ inputs[3][k].station_name = "Arosa"
          /\ inputs[3][k].coordinates # inputs[1][j].coordinates
    /\ data.dict["Arosa"].coordinates = inputs[1][1].coordinates
    /\ "humidity" \in DOMAIN data.dict["Arosa"]

\* C5: at most one run of the update method is in flight; a request made while
\* one is in flight starts no second run, every suspended requester awaits that
\* one run, and all of them resume in the step that completes it.
C5_SingleCycleCoalesced ==
    /\ [](Len(tasks) <= 1)
    /\ [](waiters # {} => Len(tasks) = 1)
    /\ [][(Refreshing /\ waiters' # waiters /\ waiters \subseteq waiters') => tasks' = tasks]_vars
    /\ [][(waiters' # waiters /\ ~(waiters \subseteq waiters')) =>
             (CycleCompletes /\ waiters' = {})]_vars

C5_Witness ==
    /\ Len(tasks) = 1
    /\ tasks[1].mon_cond = 2
    /\ Cardinality(waiters) = 2

\* C6: every completed cycle, successful or failed, calls back all listeners
\* registered at that time; an entity added to hass is a listener until it is
\* removed, and no entity asks to be polled.
C6_ListenersNotified ==
    /\ [][CycleCompletes => notified' = listeners]_vars
    /\ [](\A e \in DOMAIN entities :
            /\ (hass_phase[e] = "added") <=> (e \in listeners)
            /\ ~should_poll(e))

C6_Witness ==
    /\ Idle
    /\ last_cycle = "failed"
    /\ ~last_update_success
    /\ notified = {1, 2}
    /\ listeners = {1}

\* C7: no read of a sensor raises: state, unit_of_measurement and
\* device_state_attributes return in every reachable state.
C7_ReadsNeverRaise ==
    \A e \in DOMAIN entities :
        /\ ~DidRaise(state(e))
        /\ ~DidRaise(unit_of_measurement(e))
        /\ ~DidRaise(device_state_attributes(e))

\* C8: every cycle in flight ends, given that the network answers each GET or
\* the 10-second timeout expires.
C8_CycleEnds == Refreshing ~> Idle

\* C10: sensors exist only once the refresh at setup has completed, and from
\* then on there is one per monitored condition, each for the configured
\* station, whatever the outcome of that refresh was.
C10_EntitiesAfterFirstRefresh ==
    /\ entities # <<>> => (setup = "done" /\ last_cycle # "none")
    /\ last_cycle # "none" =>
          /\ setup = "done"
          /\ Len(entities) = Len(MONITORED_CONDITIONS)
          /\ \A i \in DOMAIN entities :
                /\ entities[i]._monitored_condition = MONITORED_CONDITIONS[i]
                /\ entities[i]._station = CONF_STATION

C10_Witness ==
    /\ entities # <<>>
    /\ ~ever_ok
    /\ IsNone(data)
    /\ last_cycle = "failed"

====
